---- MODULE Spec2Model ----
(***************************************************************************)
(* Model of the edge-node enrollment gateway of KubeEdge cloudhub          *)
(* (cloud/pkg/cloudhub/servers/httpserver/certificate/certs.go).           *)
(*                                                                         *)
(* Byte strings (header values, PEM text, DER) are sequences of byte       *)
(* values 0..255; short header texts (Authorization, Ext-Key-Usages) are   *)
(* sequences of one-character strings.                                     *)
(***************************************************************************)
EXTENDS Integers, Sequences, FiniteSets, TLC

(***************************************************************************)
(* Byte-string helpers (Go packages bytes and strings).                    *)
(***************************************************************************)
Min(S) == CHOOSE x \in S : \A y \in S : x <= y

\* s[n:] of Go: s without its first n elements
Drop(s, n) == SubSeq(s, n + 1, Len(s))

\* s[:n] of Go
Take(s, n) == SubSeq(s, 1, n)

HasPrefix(s, p) == Len(s) >= Len(p) /\ SubSeq(s, 1, Len(p)) = p

HasSuffix(s, p) == Len(s) >= Len(p) /\ SubSeq(s, Len(s) - Len(p) + 1, Len(s)) = p

\* bytes.Index: 0-based offset of the first occurrence of p in s, or -1
Occurrences(s, p) == {i \in 0..(Len(s) - Len(p)) : SubSeq(s, i + 1, i + Len(p)) = p}
FirstOf(I) == IF I = {} THEN -1 ELSE Min(I)
Index(s, p) == FirstOf(Occurrences(s, p))

\* strings.ReplaceAll(s, c, ""): every occurrence of the one-byte string c removed
ReplaceAll(s, c) == SelectSeq(s, LAMBDA b : b # c)

\* bytes.TrimRight(s, cutset)
RECURSIVE TrimRight(_, _)
TrimRight(s, cutset) ==
    IF Len(s) > 0 /\ s[Len(s)] \in cutset
    THEN TrimRight(Take(s, Len(s) - 1), cutset)
    ELSE s

(***************************************************************************)
(* encoding/base64, StdEncoding (padded, not strict).                      *)
(***************************************************************************)
LF == 10
CR == 13
SP == 32
TAB == 9
PadChar == 61

B64Val(c) ==
    IF c >= 65 /\ c <= 90 THEN c - 65
    ELSE IF c >= 97 /\ c <= 122 THEN c - 71
    ELSE IF c >= 48 /\ c <= 57 THEN c + 4
    ELSE IF c = 43 THEN 62
    ELSE IF c = 47 THEN 63
    ELSE -1

B64Char(v) ==
    IF v <= 25 THEN v + 65
    ELSE IF v <= 51 THEN v + 71
    ELSE IF v <= 61 THEN v - 4
    ELSE IF v = 62 THEN 43
    ELSE 47

\* base64.StdEncoding.EncodeToString: character j of the encoding of b, which
\* belongs to the group of three bytes b1, b2, b3 (absent bytes count as 0)
B64Sextet(k, b1, b2, b3) ==
    IF k = 0 THEN b1 \div 4
    ELSE IF k = 1 THEN (b1 % 4) * 16 + (b2 \div 16)
    ELSE IF k = 2 THEN (b2 % 16) * 4 + (b3 \div 64)
    ELSE b3 % 64

B64ByteAt(b, i) == IF i <= Len(b) THEN b[i] ELSE 0

B64EncodedChar(b, g, k) ==
    IF 3 * g - 3 + k > Len(b) THEN PadChar
    ELSE B64Char(B64Sextet(k, B64ByteAt(b, 3 * g - 2), B64ByteAt(b, 3 * g - 1),
                           B64ByteAt(b, 3 * g)))

B64Encode(b) ==
    [j \in 1..(4 * ((Len(b) + 2) \div 3)) |-> B64EncodedChar(b, ((j - 1) \div 4) + 1, (j - 1) % 4)]

\* one quantum of four characters; padding is legal only in the last one
B64Values(q, last, v1, v2, v3, v4) ==
        IF v1 < 0 \/ v2 < 0 THEN [ok |-> FALSE, bytes |-> <<>>]
        ELSE IF q[3] = PadChar THEN
            IF last /\ q[4] = PadChar
            THEN [ok |-> TRUE, bytes |-> << v1 * 4 + (v2 \div 16) >>]
            ELSE [ok |-> FALSE, bytes |-> <<>>]
        ELSE IF v3 < 0 THEN [ok |-> FALSE, bytes |-> <<>>]
        ELSE IF q[4] = PadChar THEN
            IF last
            THEN [ok |-> TRUE,
                  bytes |-> << v1 * 4 + (v2 \div 16), (v2 % 16) * 16 + (v3 \div 4) >>]
            ELSE [ok |-> FALSE, bytes |-> <<>>]
        ELSE IF v4 < 0 THEN [ok |-> FALSE, bytes |-> <<>>]
        ELSE [ok |-> TRUE,
              bytes |-> << v1 * 4 + (v2 \div 16),
                           (v2 % 16) * 16 + (v3 \div 4),
                           (v3 % 4) * 64 + v4 >>]

B64Quantum(q, last) ==
    B64Values(q, last, B64Val(q[1]), B64Val(q[2]), B64Val(q[3]), B64Val(q[4]))

\* quantum k of the filtered text s, the last one being quantum n
B64QuantumAt(s, k, n) == B64Quantum(SubSeq(s, 4 * k - 3, 4 * k), k = n)

B64Quanta(s) ==
    IF Len(s) % 4 # 0 \/ \E k \in 1..(Len(s) \div 4) : ~B64QuantumAt(s, k, Len(s) \div 4).ok
    THEN [ok |-> FALSE, bytes |-> <<>>]
    ELSE IF Len(s) = 0 THEN [ok |-> TRUE, bytes |-> <<>>]
    ELSE [ok |-> TRUE,
          bytes |-> [i \in 1..(3 * ((Len(s) \div 4) - 1)
                               + Len(B64QuantumAt(s, Len(s) \div 4, Len(s) \div 4).bytes))
                     |-> B64QuantumAt(s, ((i - 1) \div 3) + 1, Len(s) \div 4).bytes[((i - 1) % 3) + 1]]]

\* base64.StdEncoding.DecodeString: CR and LF are skipped, anything else
\* outside the alphabet, a short last quantum or misplaced padding is an error
B64Decode(s) == B64Quanta(SelectSeq(s, LAMBDA c : c # LF /\ c # CR))

(***************************************************************************)
(* encoding/pem                                                            *)
(***************************************************************************)
pemEndOfLine == << 45, 45, 45, 45, 45 >>
pemStart == << LF >> \o pemEndOfLine \o << 66, 69, 71, 73, 78, SP >>
pemEnd == << LF >> \o pemEndOfLine \o << 69, 78, 68, SP >>
colon == << 58 >>

CertificateBlockType == << 67, 69, 82, 84, 73, 70, 73, 67, 65, 84, 69 >>
PrivateKeyBlockType == << 80, 82, 73, 86, 65, 84, 69, SP, 75, 69, 89 >>

\* pem.getLine: the first line without trailing blanks, and what follows it
getLineAt(data, i0) ==
    [line |-> TrimRight(Take(data, IF i0 < 0 THEN Len(data)
                                   ELSE IF i0 > 0 /\ data[i0] = CR THEN i0 - 1 ELSE i0),
                        {SP, TAB}),
     rest |-> Drop(data, IF i0 < 0 THEN Len(data) ELSE i0 + 1)]

getLine(data) == getLineAt(data, Index(data, << LF >>))

removeSpacesAndTabs(data) == SelectSeq(data, LAMBDA c : c # SP /\ c # TAB)

\* the header loop of pem.Decode: lines holding a colon are consumed as headers
RECURSIVE pemHeaders(_, _)
pemHeader(rest, n, gl) ==
    IF Index(gl.line, colon) < 0
    THEN [eof |-> FALSE, n |-> n, rest |-> rest]
    ELSE pemHeaders(gl.rest, n + 1)

pemHeaders(rest, n) ==
    IF Len(rest) = 0 THEN [eof |-> TRUE, n |-> n, rest |-> rest]
    ELSE pemHeader(rest, n, getLine(rest))

NoBlock(data) == [found |-> FALSE, Type |-> <<>>, Bytes |-> <<>>, rest |-> data]

\* One pass of the loop body of pem.Decode, an operator per stage.  The pass
\* ends in "return nil, data" (none), in "continue" with the rest to go on
\* from (again), or in the block found.
pemNone == [kind |-> "none", Type |-> <<>>, Bytes |-> <<>>, rest |-> <<>>]
pemContinue(rest) == [kind |-> "again", Type |-> <<>>, Bytes |-> <<>>, rest |-> rest]

\* the END line must name the type, and the body must be base64
pemBody(typeLine, rest, endIndex, body) ==
    IF ~body.ok THEN pemContinue(rest)
    ELSE [kind |-> "block", Type |-> typeLine, Bytes |-> body.bytes,
          rest |-> getLine(Drop(rest, endIndex + Len(pemEnd) - 1)).rest]

pemTrailer(typeLine, rest, endIndex, endTrailer, restOfEndLine) ==
    IF ~HasPrefix(endTrailer, typeLine) \/ ~HasSuffix(endTrailer, pemEndOfLine)
    THEN pemContinue(rest)
    ELSE IF Len(getLine(restOfEndLine).line) # 0 THEN pemContinue(rest)
    ELSE pemBody(typeLine, rest, endIndex,
                 B64Decode(removeSpacesAndTabs(Take(rest, endIndex))))

pemBlock(typeLine, rest, endIndex, endTrailerIndex) ==
    IF Len(rest) - endTrailerIndex < Len(typeLine) + Len(pemEndOfLine)
    THEN pemContinue(rest)
    ELSE pemTrailer(typeLine, rest, endIndex,
                    Take(Drop(rest, endTrailerIndex), Len(typeLine) + Len(pemEndOfLine)),
                    Drop(rest, endTrailerIndex + Len(typeLine) + Len(pemEndOfLine)))

\* the END line is looked for after the headers
pemFindEnd(typeLine, rest, nHeaders) ==
    IF nHeaders = 0 /\ HasPrefix(rest, Drop(pemEnd, 1))
    THEN pemBlock(typeLine, rest, 0, Len(pemEnd) - 1)
    ELSE IF Index(rest, pemEnd) < 0 THEN pemContinue(rest)
    ELSE pemBlock(typeLine, rest, Index(rest, pemEnd), Index(rest, pemEnd) + Len(pemEnd))

\* the headers follow the type line
pemAfterType(typeLine, hd) ==
    IF hd.eof THEN pemNone ELSE pemFindEnd(typeLine, hd.rest, hd.n)

\* the rest of the BEGIN line holds the type and five dashes
pemAfterStart(tl) ==
    IF ~HasSuffix(tl.line, pemEndOfLine) THEN pemContinue(tl.rest)
    ELSE pemAfterType(Take(tl.line, Len(tl.line) - Len(pemEndOfLine)),
                      pemHeaders(tl.rest, 0))

pemPass(rest) ==
    IF HasPrefix(rest, Drop(pemStart, 1))
    THEN pemAfterStart(getLine(Drop(rest, Len(pemStart) - 1)))
    ELSE IF Index(rest, pemStart) >= 0
    THEN pemAfterStart(getLine(Drop(rest, Index(rest, pemStart) + Len(pemStart))))
    ELSE pemNone

\* pem.Decode(data): the loop, rest being the loop variable
RECURSIVE pemDecodeFrom(_, _)
pemLoop(data, r) ==
    IF r.kind = "again" THEN pemDecodeFrom(data, r.rest)
    ELSE IF r.kind = "none" THEN NoBlock(data)
    ELSE [found |-> TRUE, Type |-> r.Type, Bytes |-> r.Bytes, rest |-> r.rest]

pemDecodeFrom(data, rest) == pemLoop(data, pemPass(rest))

pemDecode(data) == pemDecodeFrom(data, data)

\* the base64 body of a PEM block in lines of 64 characters
RECURSIVE pemLines(_)
pemLines(b64) ==
    IF Len(b64) = 0 THEN <<>>
    ELSE IF Len(b64) <= 64 THEN b64 \o << LF >>
    ELSE Take(b64, 64) \o << LF >> \o pemLines(Drop(b64, 64))

\* pem.EncodeToMemory of a block without headers
pemEncode(type, bytes) ==
    Drop(pemStart, 1) \o type \o pemEndOfLine \o << LF >>
    \o pemLines(B64Encode(bytes))
    \o Drop(pemEnd, 1) \o type \o pemEndOfLine \o << LF >>

(***************************************************************************)
(* crypto/x509: the certificates of the model and their DER encodings.     *)
(* chained says whether the certificate verifies against the pool holding  *)
(* the configured CA for the client-authentication usage.                  *)
(***************************************************************************)
Cert(serial, org, cn, chained) ==
    [SerialNumber |-> serial, Organization |-> org, CommonName |-> cn, chained |-> chained]

cAlpha        == Cert(7,  << "system:nodes" >>, "system:node:alpha", TRUE)
cLegacy       == Cert(32, << "KubeEdge" >>, "kubeedge.io", TRUE)
cNoOrg        == Cert(3,  << >>, "system:node:alpha", TRUE)
cForged       == Cert(10, << "system:nodes" >>, "system:node:alpha", FALSE)
cLegacyForged == Cert(5,  << "KubeEdge" >>, "kubeedge.io", FALSE)
cGateway      == Cert(6,  << "gateway", "system:nodes" >>, "system:node:alpha", TRUE)
cNoOrgForged  == Cert(4,  << >>, "system:node:alpha", FALSE)

Certificates == {cAlpha, cLegacy, cNoOrg, cForged, cLegacyForged, cGateway, cNoOrgForged}

\* the DER encoding of a certificate: a SEQUENCE tag, a length and the content
DER(c) == << 48, 2, 2, c.SerialNumber >>

\* x509.ParseCertificate
x509ParseCertificate(der) ==
    IF \E c \in Certificates : DER(c) = der
    THEN [ok |-> TRUE, cert |-> CHOOSE c \in Certificates : DER(c) = der]
    ELSE [ok |-> FALSE, cert |-> cAlpha]

(***************************************************************************)
(* parseCertHeader                                                         *)
(***************************************************************************)
\* lines 217-219: newlines, then spaces, are removed from the decoded payload
cleanData(decoded) == ReplaceAll(ReplaceAll(decoded, LF), SP)

\* lines 222-232: scan PEM blocks for the first one of type CERTIFICATE.
\* certData is nil (isNil) or the bytes of that block.
RECURSIVE scanBlocks(_)
scanBlock(b) ==
    IF ~b.found
    THEN [isNil |-> TRUE, certData |-> <<>>, decoded |-> b.rest]
    ELSE IF b.Type = CertificateBlockType
    THEN [isNil |-> FALSE, certData |-> b.Bytes, decoded |-> b.rest]
    ELSE scanBlocks(b.rest)

scanBlocks(decoded) ==
    IF Len(decoded) = 0 THEN [isNil |-> TRUE, certData |-> <<>>, decoded |-> decoded]
    ELSE scanBlock(pemDecode(decoded))

\* lines 235-237: without a CERTIFICATE block what is left of the payload is
\* taken for DER
certDataOf(s) == IF s.isNil THEN s.decoded ELSE s.certData

\* lines 212-246, the payload being decoded
parseDecoded(d) ==
    IF ~d.ok THEN [ok |-> FALSE, cert |-> cAlpha]
    ELSE x509ParseCertificate(certDataOf(scanBlocks(cleanData(d.bytes))))

parseCertHeader(header) == parseDecoded(B64Decode(header))

(***************************************************************************)
(* Configuration (hubconfig.Config) and the external primitives.           *)
(***************************************************************************)
CaCert == "ca-cert"
CaKey == "ca-key"
ExtKeyUsageClientAuth == 2
HoursPerDay == 24

\* token.Verify(token, key): valid for the tokens signed with key, an error
\* for text that is no token at all
ValidTokens == { << "g" >> }
WellFormedTokens == { << "g" >>, << "b" >> }
tokenVerify(tok, key) ==
    [valid |-> key = CaKey /\ tok \in ValidTokens,
     err   |-> tok \notin WellFormedTokens]

\* certs.GetHandler(HandlerTypeX509).SignCerts(SignCertsOptionsWithCSR(...)):
\* fails on bytes that are no certificate request
ValidCSR(csr) == Len(csr) > 0 /\ csr[1] = 7
SignCerts(opts) ==
    IF ValidCSR(opts.csr) /\ opts.caKey = CaKey
    THEN [ok |-> TRUE, block |-> [Type |-> CertificateBlockType, Bytes |-> << 48 >> \o opts.csr]]
    ELSE [ok |-> FALSE, block |-> [Type |-> << >>, Bytes |-> << >>]]

(***************************************************************************)
(* verifyCert, verifyCertSubject                                           *)
(***************************************************************************)
Sprintf_node(nodeName) == "system:node:" \o nodeName

\* verifyCertSubject with the common name left out of the current-scheme rule
verifyCertSubject_orgOnly(cert, nodeName) ==
    IF Len(cert.Organization) = 0 THEN "panic"
    ELSE IF cert.Organization[1] = "KubeEdge" /\ cert.CommonName = "kubeedge.io" THEN "ok"
    ELSE IF cert.Organization[1] = "system:nodes" THEN "ok"
    ELSE "mismatch"

\* verifyCertSubject without the compatibility rule for older certificates
verifyCertSubject_noLegacy(cert, nodeName) ==
    IF Len(cert.Organization) = 0 THEN "panic"
    ELSE IF cert.Organization[1] = "system:nodes"
            /\ cert.CommonName = Sprintf_node(nodeName) THEN "ok"
    ELSE "mismatch"

\* Organization[0] on an empty list is an index-out-of-range panic
verifyCertSubject(cert, nodeName) ==
    IF Len(cert.Organization) = 0 THEN "panic"
    ELSE IF cert.Organization[1] = "KubeEdge" /\ cert.CommonName = "kubeedge.io" THEN "ok"
    ELSE IF cert.Organization[1] = "system:nodes"
            /\ cert.CommonName = Sprintf_node(nodeName) THEN "ok"
    ELSE "mismatch"

\* verifyCert looking at the subject before the chain
verifyCert_subjectFirst(cert, nodeName, caOk) ==
    IF verifyCertSubject(cert, nodeName) = "ok" THEN "ok"
    ELSE IF ~caOk THEN "rootfail"
    ELSE IF ~cert.chained THEN "chainfail"
    ELSE verifyCertSubject(cert, nodeName)

verifyCert(cert, nodeName, caOk) ==
    IF ~caOk THEN "rootfail"
    ELSE IF ~cert.chained THEN "chainfail"
    ELSE verifyCertSubject(cert, nodeName)

(***************************************************************************)
(* verifyAuthorization                                                     *)
(***************************************************************************)
StatusOK == 200
StatusUnauthorized == 401
StatusInternalServerError == 500

\* strings.Split(s, sep): the pieces of s between occurrences of sep
RECURSIVE Split(_, _)
Split(s, sep) ==
    LET i == Index(s, << sep >>)
    IN  IF i < 0 THEN << s >>
        ELSE << Take(s, i) >> \o Split(Drop(s, i + 1), sep)

\* verifyAuthorization taking any header of two parts or more
verifyAuthorization_atLeastTwo(authorization) ==
    IF authorization = << >>
    THEN [code |-> StatusUnauthorized, err |-> "token is empty", calls |-> << >>]
    ELSE LET bearerToken == Split(authorization, " ")
         IN  IF Len(bearerToken) < 2
             THEN [code |-> StatusUnauthorized, err |-> "token cannot be splited",
                   calls |-> << >>]
             ELSE LET v == tokenVerify(bearerToken[2], CaKey)
                      call == << [token |-> bearerToken[2], key |-> CaKey] >>
                  IN  IF v.err
                      THEN [code |-> StatusUnauthorized, err |-> "err", calls |-> call]
                      ELSE IF ~v.valid
                      THEN [code |-> StatusUnauthorized, err |-> "valid is false",
                            calls |-> call]
                      ELSE [code |-> StatusOK, err |-> "nil", calls |-> call]

\* calls: the calls made to token.Verify
verifyAuthorization(authorization) ==
    IF authorization = << >>
    THEN [code |-> StatusUnauthorized, err |-> "token is empty", calls |-> << >>]
    ELSE LET bearerToken == Split(authorization, " ")
         IN  IF Len(bearerToken) # 2
             THEN [code |-> StatusUnauthorized, err |-> "token cannot be splited",
                   calls |-> << >>]
             ELSE LET v == tokenVerify(bearerToken[2], CaKey)
                      call == << [token |-> bearerToken[2], key |-> CaKey] >>
                  IN  IF v.err
                      THEN [code |-> StatusUnauthorized, err |-> "err", calls |-> call]
                      ELSE IF ~v.valid
                      THEN [code |-> StatusUnauthorized, err |-> "valid is false",
                            calls |-> call]
                      ELSE [code |-> StatusOK, err |-> "nil", calls |-> call]

(***************************************************************************)
(* encoding/json: Unmarshal of a text into a []x509.ExtKeyUsage (a list    *)
(* of integers).  null leaves the list nil; a null element leaves a zero.  *)
(***************************************************************************)
JsonSpace == { " ", "\t", "\n", "\r" }
DigitValue == [c \in {"0", "1", "2", "3", "4", "5", "6", "7", "8", "9"} |->
                CASE c = "0" -> 0 [] c = "1" -> 1 [] c = "2" -> 2 [] c = "3" -> 3
                  [] c = "4" -> 4 [] c = "5" -> 5 [] c = "6" -> 6 [] c = "7" -> 7
                  [] c = "8" -> 8 [] c = "9" -> 9]
IsDigit(c) == c \in DOMAIN DigitValue
JsonNull == << "n", "u", "l", "l" >>

RECURSIVE skipSpace(_)
skipSpace(s) == IF Len(s) > 0 /\ s[1] \in JsonSpace THEN skipSpace(Drop(s, 1)) ELSE s

RECURSIVE jsonDigits(_, _)
jsonDigits(s, acc) ==
    IF Len(s) > 0 /\ IsDigit(s[1])
    THEN jsonDigits(Drop(s, 1), acc * 10 + DigitValue[s[1]])
    ELSE [val |-> acc, rest |-> s]

\* an integer literal: no leading zeros, no fraction, no exponent
jsonInt(s) ==
    LET neg == Len(s) > 0 /\ s[1] = "-"
        t == IF neg THEN Drop(s, 1) ELSE s
    IN  IF Len(t) = 0 \/ ~IsDigit(t[1]) THEN [ok |-> FALSE, val |-> 0, rest |-> s]
        ELSE LET d == jsonDigits(t, 0)
                 leadingZero == t[1] = "0" /\ Len(t) > 1 /\ IsDigit(t[2])
                 float == Len(d.rest) > 0 /\ d.rest[1] \in {".", "e", "E"}
             IN  IF leadingZero \/ float THEN [ok |-> FALSE, val |-> 0, rest |-> s]
                 ELSE [ok |-> TRUE, val |-> IF neg THEN 0 - d.val ELSE d.val, rest |-> d.rest]

\* one array element: an integer or null
jsonElem(s) ==
    IF HasPrefix(s, JsonNull) THEN [ok |-> TRUE, val |-> 0, rest |-> Drop(s, 4)]
    ELSE jsonInt(s)

\* the elements after "[" up to and including "]"
RECURSIVE jsonElems(_, _)
jsonElems(s, acc) ==
    LET e == jsonElem(skipSpace(s))
        t == skipSpace(e.rest)
    IN  IF ~e.ok \/ Len(t) = 0 THEN [ok |-> FALSE, list |-> << >>, rest |-> s]
        ELSE IF t[1] = "]" THEN [ok |-> TRUE, list |-> Append(acc, e.val), rest |-> Drop(t, 1)]
        ELSE IF t[1] = "," THEN jsonElems(Drop(t, 1), Append(acc, e.val))
        ELSE [ok |-> FALSE, list |-> << >>, rest |-> s]

jsonUnmarshal(text) ==
    LET s == skipSpace(text)
        fail == [ok |-> FALSE, list |-> << >>]
    IN  IF HasPrefix(s, JsonNull)
        THEN IF skipSpace(Drop(s, 4)) = << >> THEN [ok |-> TRUE, list |-> << >>] ELSE fail
        ELSE IF Len(s) = 0 \/ s[1] # "[" THEN fail
        ELSE LET t == skipSpace(Drop(s, 1))
                 r == IF Len(t) > 0 /\ t[1] = "]"
                      THEN [ok |-> TRUE, list |-> << >>, rest |-> Drop(t, 1)]
                      ELSE jsonElems(t, << >>)
             IN  IF r.ok /\ skipSpace(r.rest) = << >>
                 THEN [ok |-> TRUE, list |-> r.list] ELSE fail

(***************************************************************************)
(* signEdgeCert                                                            *)
(***************************************************************************)
MaxRespBodyLength == 2

\* a bounded reader that cuts the body at the limit instead of failing
readAll_truncate(body) ==
    [ok |-> TRUE, payload |-> Take(body, Min({Len(body), MaxRespBodyLength}))]

\* io.ReadAll(http.MaxBytesReader(w, body, MaxRespBodyLength)): a body longer
\* than the limit is a read error
readAll(body) ==
    IF Len(body) > MaxRespBodyLength THEN [ok |-> FALSE, payload |-> << >>]
    ELSE [ok |-> TRUE, payload |-> body]

\* usagesOf falling back to the default when the header does not deserialise
usagesOf_silentDefault(usagesStr) ==
    IF usagesStr = << >> \/ ~jsonUnmarshal(usagesStr).ok
    THEN [ok |-> TRUE, list |-> << ExtKeyUsageClientAuth >>]
    ELSE jsonUnmarshal(usagesStr)

\* lines 138-146
usagesOf(usagesStr) ==
    IF usagesStr = << >> THEN [ok |-> TRUE, list |-> << ExtKeyUsageClientAuth >>]
    ELSE jsonUnmarshal(usagesStr)

\* line 151: EdgeCertSigningDuration * time.Hour * 24, in hours
edgeCertSigningDuration(days) == days * HoursPerDay

\* calls: the calls made to SignCerts
signEdgeCert(body, usagesStr, days) ==
    LET u == usagesOf(usagesStr)
        none == [Type |-> << >>, Bytes |-> << >>]
    IN  IF ~u.ok THEN [ok |-> FALSE, err |-> "unmarshal", block |-> none, calls |-> << >>]
        ELSE LET rd == readAll(body)
             IN  IF ~rd.ok
                 THEN [ok |-> FALSE, err |-> "read", block |-> none, calls |-> << >>]
                 ELSE LET opts == [csr |-> rd.payload, ca |-> CaCert, caKey |-> CaKey,
                                   usages |-> u.list,
                                   duration |-> edgeCertSigningDuration(days)]
                          sg == SignCerts(opts)
                      IN  IF ~sg.ok
                          THEN [ok |-> FALSE, err |-> "signCerts", block |-> none,
                                calls |-> << opts >>]
                          ELSE [ok |-> TRUE, err |-> "nil", block |-> sg.block,
                                calls |-> << opts >>]

(***************************************************************************)
(* Responses (package resps).                                              *)
(***************************************************************************)
respsOK(written, bytes) == Append(written, [status |-> StatusOK, body |-> bytes])
respsErrorMessage(written, code, message) == Append(written, [status |-> code, body |-> message])
respsError(written, code, err) == Append(written, [status |-> code, body |-> err])

(***************************************************************************)
(* Inputs of the model.                                                    *)
(***************************************************************************)
\* values of the X-Forwarded-Client-Cert header
hdrPEM(c) == B64Encode(pemEncode(CertificateBlockType, DER(c)))
hdrDER(c) == B64Encode(DER(c))
hdrKeyThenCert == B64Encode(pemEncode(PrivateKeyBlockType, << 1, 2, 3 >>)
                            \o pemEncode(CertificateBlockType, DER(cAlpha)))
hdrCertThenCert == B64Encode(pemEncode(CertificateBlockType, DER(cAlpha))
                             \o pemEncode(CertificateBlockType, DER(cLegacy)))
hdrBadBase64 == << 33, 33 >>
hdrGarbage == B64Encode(<< 1, 2, 3 >>)
hdrPadded == B64Encode(<< 48, LF, 2, 2, SP, 7 >>)

CertHeaders ==
    { << >>, hdrBadBase64, hdrGarbage, hdrPadded, hdrKeyThenCert, hdrCertThenCert,
      hdrPEM(cAlpha), hdrPEM(cLegacy) }
    \cup { hdrDER(c) : c \in {cAlpha, cLegacy, cForged, cNoOrg, cLegacyForged} }

NodeNames == { "", "alpha", "beta" }

Authorizations ==
    { << >>, << "B" >>, << "B", " ", "g" >>, << "B", " ", "b" >>, << "B", " ", "j" >>,
      << "B", " ", " ", "g" >>, << "B", "\t", "g" >>, << " ", "g" >> }

UsagesStrs ==
    { << >>, << "[", "2", "]" >>, << "[", "1", ",", "2", "]" >>, << "[", "]" >>,
      << "n", "u", "l", "l" >>, << "x" >>, << "[", "1", "," >> }

\* a body of n bytes starting with byte v
BodyOf(n, v) == [i \in 1..n |-> IF i = 1 THEN v ELSE 9]
Bodies == { BodyOf(n, v) : n \in 0..(MaxRespBodyLength + 1), v \in {7, 9} }

SigningDurations == { 1, 365 }

\* the peer certificates a client may present in the TLS handshake
PeerChains ==
    { << >>, << cGateway >>, << cAlpha >>, << cLegacy >>, << cNoOrg >>, << cForged >>,
      << cNoOrgForged >>, << cGateway, cAlpha >> }

\* a *tls.ConnectionState: nil, or an object holding the peer certificates
NilState == [isNil |-> TRUE, PeerCertificates |-> << >>]
ConnectionState(certs) == [isNil |-> FALSE, PeerCertificates |-> certs]

\* the transport sessions: without TLS, or a handshake with a chain of the client
Handshakes == { NilState } \cup { ConnectionState(ch) : ch \in PeerChains }

(***************************************************************************)
(* State.                                                                  *)
(***************************************************************************)
VARIABLES
    Config,      \* hubconfig.Config: [caOk, EdgeCertSigningDuration]
    handshake,   \* what the handshake of the transport session established
    connState,   \* the connection's *tls.ConnectionState object (c.tlsState)
    pc,          \* position of the connection's current request
    reqTLS,      \* r.TLS: [ref |-> "nil" | "conn" | "own", PeerCertificates]
    header,      \* header values of the request, as read so far
    body,        \* the request body
    parsed,      \* outcome of parseCertHeader in FilterCert
    authn,       \* the authentication performed by EdgeCoreClientCert
    tokenCalls,  \* calls of token.Verify for this request
    signCalls,   \* calls of SignCerts for this request
    resp,        \* responses written for this request
    chain,       \* calls of chain.ProcessFilter for this request
    route        \* the handler the request is routed to

\* package policycontroller/config and the goroutines calling InitConfigure
VARIABLES
    PolicyConfig,  \* config.Config
    once,          \* config.once: [done, m], m the holder of the mutex or 0
    gpc,           \* position of each goroutine in InitConfigure
    garg,          \* the argument pc of each goroutine's call
    ran,           \* the arguments of the runs of the function given to once.Do
    returned       \* the arguments of the calls of InitConfigure that returned

reqvars == << Config, handshake, connState, pc, reqTLS, header, body, parsed, authn,
              tokenCalls, signCalls, resp, chain, route >>
pvars == << PolicyConfig, once, gpc, garg, ran, returned >>
vars == << reqvars, pvars >>

\* v1alpha1.PolicyController values, 0 the zero value; a *PolicyController
MaxGoroutines == 3
Goroutines == 1..MaxGoroutines
PolicyControllers == { 0, 1, 2 }
NilPC == [isNil |-> TRUE, val |-> 0]
PointerTo(v) == [isNil |-> FALSE, val |-> v]
PolicyPointers == { NilPC } \cup { PointerTo(v) : v \in PolicyControllers }
Configure(v) == [PolicyController |-> v]

InitPolicy ==
    /\ PolicyConfig = Configure(0)
    /\ once = [done |-> 0, m |-> 0]
    /\ gpc = [g \in Goroutines |-> "idle"]
    /\ garg = [g \in Goroutines |-> NilPC]
    /\ ran = << >>
    /\ returned = { }

NoHeader == [XForwardedClientCert |-> << >>, NodeName |-> "", Authorization |-> << >>,
             ExtKeyUsages |-> << >>]
NoAuthn == [path |-> "none", result |-> "none", cert |-> << >>]
NilTLS == [ref |-> "nil", PeerCertificates |-> << >>]

\* the peer certificates r.TLS points to
PeerCertificates ==
    IF reqTLS.ref = "conn" THEN connState.PeerCertificates ELSE reqTLS.PeerCertificates

FreshRequest ==
    /\ header = NoHeader /\ body = << >> /\ parsed = "none" /\ authn = NoAuthn
    /\ tokenCalls = << >> /\ signCalls = << >> /\ resp = << >> /\ chain = 0
    /\ route = "none"

Init ==
    /\ Config \in [caOk : BOOLEAN, EdgeCertSigningDuration : SigningDurations]
    /\ handshake = NilState /\ connState = NilState
    /\ pc = "closed"
    /\ reqTLS = NilTLS
    /\ FreshRequest
    /\ InitPolicy

ResetRequest ==
    /\ header' = NoHeader /\ body' = << >> /\ parsed' = "none" /\ authn' = NoAuthn
    /\ tokenCalls' = << >> /\ signCalls' = << >> /\ resp' = << >> /\ chain' = 0
    /\ route' = "none"

\* net/http accepts a connection; after a TLS handshake the connection keeps one
\* ConnectionState object for all its requests
Accept(hs) ==
    /\ pc = "closed"
    /\ handshake' = hs
    /\ connState' = hs
    /\ pc' = "idle"
    /\ UNCHANGED << Config, reqTLS, header, body, parsed, authn, tokenCalls, signCalls,
                    resp, chain, route >>
    /\ UNCHANGED pvars

\* net/http reads the next request of the connection: req.TLS = c.tlsState
ReadRequest ==
    /\ pc \in {"idle", "done"}
    /\ reqTLS' = IF connState.isNil THEN NilTLS
                 ELSE [ref |-> "conn", PeerCertificates |-> << >>]
    /\ ResetRequest
    /\ pc' = "filter"
    /\ UNCHANGED << Config, handshake, connState >>
    /\ UNCHANGED pvars

\* the parse-failure branch leaving r.TLS as it was
tlsAfterParseError_keep(r) == r

\* line 187: r.TLS after a parse failure is a new, empty ConnectionState
tlsAfterParseError(r) == [ref |-> "own", PeerCertificates |-> << >>]

\* the extracted certificate added to the peer certificates already there
peerCertificatesWith_append(old, cert) == Append(old, cert)

\* line 198: the peer certificates are the list of the extracted certificate
peerCertificatesWith(old, cert) == << cert >>

\* lines 184-198: what FilterCert does to r.TLS with the outcome p of
\* parseCertHeader
SetPeerCertificate(p) ==
    IF ~p.ok
    THEN /\ parsed' = "error"
         /\ reqTLS' = tlsAfterParseError(reqTLS)
         /\ UNCHANGED connState
    ELSE /\ parsed' = "ok"
         /\ IF reqTLS.ref = "nil"
            THEN \* lines 193-198: a new object, then its PeerCertificates
                 /\ reqTLS' = [ref |-> "own",
                                PeerCertificates |-> peerCertificatesWith(<< >>, p.cert)]
                 /\ UNCHANGED connState
            ELSE \* line 198: the assignment goes through the pointer r.TLS, which
                 \* at this point is the object of the connection
                 /\ connState' = [connState EXCEPT
                                   !.PeerCertificates = peerCertificatesWith(@, p.cert)]
                 /\ UNCHANGED reqTLS

\* a filter that clears r.TLS also when there is no header
tlsWithoutHeader_reset(r) == [ref |-> "own", PeerCertificates |-> << >>]

\* lines 174-178: without the header r.TLS is not assigned
tlsWithoutHeader(r) == r

\* a filter that does not pass on a request whose header does not parse
processFilterCalls_failClosed(certHeader, ok) ==
    IF certHeader = << >> THEN 1 ELSE IF ~ok THEN 0 ELSE 1

\* lines 176, 188, 201: the calls of chain.ProcessFilter on the path taken
processFilterCalls(certHeader, ok) ==
    IF certHeader = << >> THEN 1 ELSE IF ~ok THEN 1 ELSE 1

\* FilterCert with its call of chain.ProcessFilter, which runs the handler
FilterCert(certHeader) ==
    /\ pc = "filter"
    /\ header' = [header EXCEPT !.XForwardedClientCert = certHeader]
    /\ chain' = chain + processFilterCalls(certHeader, parseCertHeader(certHeader).ok)
    /\ pc' = IF chain' > chain THEN "handler" ELSE "done"
    /\ IF certHeader = << >>
       THEN /\ parsed' = "none"
            /\ reqTLS' = tlsWithoutHeader(reqTLS)
            /\ UNCHANGED connState
       ELSE SetPeerCertificate(parseCertHeader(certHeader))
    /\ UNCHANGED << Config, handshake, body, authn, tokenCalls, signCalls, resp, route >>
    /\ UNCHANGED pvars

\* the certificate path without the return after the 401 response
afterVerifyCert_noReturn(v) ==
    IF v = "panic" THEN "panic" ELSE "signing"

\* lines 54-59: where the handler goes after verifyCert
afterVerifyCert(v) ==
    IF v = "ok" THEN "signing" ELSE IF v = "panic" THEN "panic" ELSE "done"

\* GetCA, lines 44-46: the CA certificate, to whoever asks
GetCA ==
    /\ pc = "handler"
    /\ route' = "GetCA"
    /\ resp' = respsOK(resp, CaCert)
    /\ pc' = "done"
    /\ UNCHANGED << Config, handshake, connState, reqTLS, header, body, parsed, authn,
                    tokenCalls, signCalls, chain >>
    /\ UNCHANGED pvars

\* EdgeCoreClientCert, lines 50-67: the certificate path or the token path
Authenticate(nodeName, authorization) ==
    /\ pc = "handler"
    /\ route' = "EdgeCoreClientCert"
    /\ header' = [header EXCEPT !.NodeName = nodeName, !.Authorization = authorization]
    /\ IF reqTLS.ref = "nil"
       THEN \* r.TLS.PeerCertificates on a nil r.TLS
            /\ pc' = "panic"
            /\ authn' = [path |-> "none", result |-> "panic", cert |-> << >>]
            /\ UNCHANGED << tokenCalls, resp >>
       ELSE IF Len(PeerCertificates) > 0
       THEN LET cert == PeerCertificates[1]
                v == verifyCert(cert, nodeName, Config.caOk)
            IN  /\ authn' = [path |-> "cert", result |-> v, cert |-> << cert >>]
                /\ UNCHANGED tokenCalls
                /\ pc' = afterVerifyCert(v)
                /\ IF v \in {"ok", "panic"} THEN UNCHANGED resp
                   ELSE resp' = respsErrorMessage(resp, StatusUnauthorized,
                                    << "failed to verify the certificate for edgenode",
                                       nodeName, v >>)
       ELSE LET a == verifyAuthorization(authorization)
            IN  /\ authn' = [path |-> "token",
                             result |-> IF a.err = "nil" THEN "ok" ELSE a.err,
                             cert |-> << >>]
                /\ tokenCalls' = tokenCalls \o a.calls
                /\ IF a.err # "nil"
                   THEN pc' = "done" /\ resp' = respsError(resp, a.code, a.err)
                   ELSE pc' = "signing" /\ UNCHANGED resp
    /\ UNCHANGED << Config, handshake, connState, reqTLS, body, parsed, signCalls, chain >>
    /\ UNCHANGED pvars

\* EdgeCoreClientCert, lines 69-78: sign the request and respond
Sign(usagesStr, csr) ==
    /\ pc = "signing"
    /\ header' = [header EXCEPT !.ExtKeyUsages = usagesStr]
    /\ body' = csr
    /\ LET r == signEdgeCert(csr, usagesStr, Config.EdgeCertSigningDuration)
       IN  /\ signCalls' = signCalls \o r.calls
           /\ resp' = IF r.ok THEN respsOK(resp, r.block.Bytes)
                      ELSE respsErrorMessage(resp, StatusInternalServerError,
                               << "failed to sign certs for edgenode", header.NodeName, r.err >>)
    /\ pc' = "done"
    /\ UNCHANGED << Config, handshake, connState, reqTLS, parsed, authn, tokenCalls, chain,
                    route >>
    /\ UNCHANGED pvars

\* the connection ends: by the peer, or by net/http after a panic of the handler
Close ==
    /\ pc \in {"idle", "done", "panic"}
    /\ pc' = "closed"
    /\ handshake' = NilState /\ connState' = NilState /\ reqTLS' = NilTLS
    /\ ResetRequest
    /\ UNCHANGED Config
    /\ UNCHANGED pvars

Next ==
    \/ \E hs \in Handshakes : Accept(hs)
    \/ ReadRequest
    \/ \E h \in CertHeaders : FilterCert(h)
    \/ GetCA
    \/ \E n \in NodeNames, a \in Authorizations : Authenticate(n, a)
    \/ \E u \in UsagesStrs, b \in Bodies : Sign(u, b)
    \/ Close

Spec == Init /\ [][Next]_vars

(***************************************************************************)
(* policycontroller/config: InitConfigure called from several goroutines.  *)
(* once.Do(f) reads done; when it is 0 it takes the mutex, reads done      *)
(* again, runs f when it is still 0, stores 1 in done and releases the     *)
(* mutex.                                                                  *)
(***************************************************************************)
\* a call returns to its caller
Return(g) ==
    /\ gpc' = [gpc EXCEPT ![g] = "idle"]
    /\ returned' = returned \cup { garg[g] }
    /\ garg' = [garg EXCEPT ![g] = NilPC]

\* lines 18-23: the call with argument p, up to once.Do
InitConfigure(g, p) ==
    /\ gpc[g] = "idle"
    /\ IF p.isNil
       THEN returned' = returned \cup { p } /\ UNCHANGED << gpc, garg >>
       ELSE /\ gpc' = [gpc EXCEPT ![g] = "do"]
            /\ garg' = [garg EXCEPT ![g] = p]
            /\ UNCHANGED returned
    /\ UNCHANGED << PolicyConfig, once, ran, reqvars >>

\* once.Do: the load of done on the fast path
OnceDo(g) ==
    /\ gpc[g] = "do"
    /\ IF once.done = 1 THEN Return(g)
       ELSE gpc' = [gpc EXCEPT ![g] = "slow"] /\ UNCHANGED << returned, garg >>
    /\ UNCHANGED << PolicyConfig, once, ran, reqvars >>

\* once.doSlow: o.m.Lock()
OnceLock(g) ==
    /\ gpc[g] = "slow"
    /\ once.m = 0
    /\ once' = [once EXCEPT !.m = g]
    /\ gpc' = [gpc EXCEPT ![g] = "locked"]
    /\ UNCHANGED << PolicyConfig, garg, ran, returned, reqvars >>

\* a Do that runs its function whatever done holds
onceRuns_always(done) == TRUE

\* once.doSlow: the function runs when done is still 0
onceRuns(done) == done = 0

\* once.doSlow under the mutex: lines 24-26 when the function runs
OnceRun(g) ==
    /\ gpc[g] = "locked"
    /\ IF onceRuns(once.done)
       THEN /\ PolicyConfig' = Configure(garg[g].val)
            /\ ran' = Append(ran, garg[g])
            /\ gpc' = [gpc EXCEPT ![g] = "store"]
       ELSE /\ gpc' = [gpc EXCEPT ![g] = "unlock"]
            /\ UNCHANGED << PolicyConfig, ran >>
    /\ UNCHANGED << once, garg, returned, reqvars >>

\* once.doSlow: the deferred o.done.Store(1)
OnceStore(g) ==
    /\ gpc[g] = "store"
    /\ once' = [once EXCEPT !.done = 1]
    /\ gpc' = [gpc EXCEPT ![g] = "unlock"]
    /\ UNCHANGED << PolicyConfig, garg, ran, returned, reqvars >>

\* once.doSlow: the deferred o.m.Unlock(), and the return of InitConfigure
OnceUnlock(g) ==
    /\ gpc[g] = "unlock"
    /\ once' = [once EXCEPT !.m = 0]
    /\ Return(g)
    /\ UNCHANGED << PolicyConfig, ran, reqvars >>

NextPolicy ==
    \/ \E g \in Goroutines, p \in PolicyPointers : InitConfigure(g, p)
    \/ \E g \in Goroutines : OnceDo(g)
    \/ \E g \in Goroutines : OnceLock(g)
    \/ \E g \in Goroutines : OnceRun(g)
    \/ \E g \in Goroutines : OnceStore(g)
    \/ \E g \in Goroutines : OnceUnlock(g)

SpecPolicy == Init /\ [][NextPolicy]_vars

(***************************************************************************)
(* Properties.                                                             *)
(***************************************************************************)
AfterFilter == pc \in {"handler", "signing", "done", "panic"}
AfterAuth == route = "EdgeCoreClientCert" /\ pc \in {"signing", "done", "panic"}
Statuses == { resp[i].status : i \in DOMAIN resp }

\* the certificate chains to the configured CA for client authentication
CAChained(c) == Config.caOk /\ c.chained

\* C1: the signing primitive is called, and EdgeCoreClientCert writes a 200
\* response, only in a request in which verifyCert accepted the first peer certificate for the
\* claimed node name, or verifyAuthorization accepted the Authorization header.
C1_SigningOnlyAfterAuthentication ==
    (pc = "signing" \/ signCalls # << >>
        \/ (route = "EdgeCoreClientCert" /\ StatusOK \in Statuses))
    => /\ authn.result = "ok"
       /\ route = "EdgeCoreClientCert"
       /\ \/ /\ authn.path = "cert"
             /\ Len(PeerCertificates) > 0
             /\ authn.cert = << PeerCertificates[1] >>
             /\ CAChained(PeerCertificates[1])
             /\ verifyCert(PeerCertificates[1], header.NodeName, Config.caOk) = "ok"
             /\ tokenCalls = << >>
          \/ /\ authn.path = "token"
             /\ verifyAuthorization(header.Authorization).code = StatusOK
             /\ Len(tokenCalls) = 1
             /\ tokenCalls[1].token \in ValidTokens
             /\ tokenCalls[1].key = CaKey

C1_Witness ==
    /\ pc = "done" /\ Len(signCalls) = 1 /\ StatusOK \in Statuses
    /\ authn.path = "token"

\* C2: a request without a forwarded-certificate header sees only the peer
\* certificates of the genuine transport session, whatever earlier requests
\* of the same connection carried.
C2_NoCertificateLeakAcrossRequests ==
    (AfterFilter /\ header.XForwardedClientCert = << >> /\ reqTLS.ref # "nil")
    => PeerCertificates = handshake.PeerCertificates

\* C3: after FilterCert, a request whose forwarded-certificate header is present
\* and does not parse has a non-nil connection-security context with no peer
\* certificate, and the handler takes the token path for it.
C3_ParseFailureClearsContext ==
    (AfterFilter /\ header.XForwardedClientCert # << >>)
    => \/ /\ reqTLS.ref # "nil"
          /\ PeerCertificates = << >>
          /\ pc # "panic"
          /\ AfterAuth => authn.path = "token"
       \/ parseCertHeader(header.XForwardedClientCert).ok

C3_Witness ==
    /\ pc = "done" /\ parsed = "error"
    /\ handshake.PeerCertificates = << cLegacy >>
    /\ authn.path = "token"
    /\ header.XForwardedClientCert = hdrBadBase64

\* C4: a request whose connection-security context carries no peer certificate,
\* or that has no such context at all, is authenticated on the token path and
\* the handler does not fault.
C4_NoCertificateTakesTokenPath ==
    (AfterAuth /\ (reqTLS.ref = "nil" \/ PeerCertificates = << >>))
    => (authn.path = "token" /\ pc # "panic")

\* C5: a CA-chained peer certificate with an empty organization list is rejected
\* with the subject-mismatch error and a 401 response; the verifier does not panic.
C5_EmptyOrganizationRejected ==
    (AfterAuth /\ authn.path = "cert" /\ CAChained(authn.cert[1])
               /\ authn.cert[1].Organization = << >>)
    => (authn.result = "mismatch" /\ pc = "done" /\ Statuses = {StatusUnauthorized})

\* C6: a certificate encoded as a standard PEM block and then as base64 is
\* parsed by parseCertHeader, without error, into a certificate with the same
\* serial number and subject.
C6_ParseCertHeaderRoundTrip ==
    \A c \in Certificates :
        (AfterFilter /\ header.XForwardedClientCert = hdrPEM(c))
        => /\ parsed = "ok"
           /\ Len(PeerCertificates) = 1
           /\ PeerCertificates[1].SerialNumber = c.SerialNumber
           /\ PeerCertificates[1].Organization = c.Organization
           /\ PeerCertificates[1].CommonName = c.CommonName

\* C7: a CA-chained certificate with organization system:nodes and common name
\* system:node:<n> is accepted for the claimed node name m exactly when m = n,
\* and rejected with a 401 response otherwise.
C7_NodeCertificateAcceptedForItsNodeOnly ==
    \A n \in NodeNames :
        (AfterAuth /\ authn.path = "cert" /\ CAChained(authn.cert[1])
                   /\ authn.cert[1].Organization = << "system:nodes" >>
                   /\ authn.cert[1].CommonName = "system:node:" \o n)
        => /\ authn.result = "ok" <=> header.NodeName = n
           /\ header.NodeName # n
                => (authn.result = "mismatch" /\ pc = "done"
                    /\ Statuses = {StatusUnauthorized} /\ signCalls = << >>)

C7_Witness ==
    /\ pc = "done" /\ authn.path = "cert" /\ authn.cert = << cAlpha >> /\ Config.caOk
    /\ header.NodeName = "beta" /\ authn.result = "mismatch"

\* C8: a CA-chained certificate whose first organization is KubeEdge and whose
\* common name is kubeedge.io is accepted for every claimed node name.
C8_LegacyCertificateAccepted ==
    (AfterAuth /\ authn.path = "cert" /\ CAChained(authn.cert[1])
               /\ Len(authn.cert[1].Organization) > 0
               /\ authn.cert[1].Organization[1] = "KubeEdge"
               /\ authn.cert[1].CommonName = "kubeedge.io")
    => (authn.result = "ok" /\ pc \in {"signing", "done"}
        /\ StatusUnauthorized \notin Statuses)

C8_Witness ==
    /\ pc = "signing" /\ authn.path = "cert" /\ authn.cert = << cLegacy >>
    /\ header.NodeName = "" /\ authn.result = "ok"

\* strings.Fields: the parts of s between runs of white space
WhiteSpace == { " ", "\t", "\n", "\r" }
RECURSIVE Fields(_, _)
Fields(s, cur) ==
    IF Len(s) = 0 THEN (IF cur = << >> THEN << >> ELSE << cur >>)
    ELSE IF s[1] \in WhiteSpace
    THEN (IF cur = << >> THEN << >> ELSE << cur >>) \o Fields(Drop(s, 1), << >>)
    ELSE Fields(Drop(s, 1), Append(cur, s[1]))

\* what the token path must have done for a header of the parts given:
\* no call unless there are two parts, else one call on the second part
TokenPathFollows(twoParts, tok) ==
    IF ~twoParts
    THEN /\ tokenCalls = << >>
         /\ authn.result # "ok"
         /\ pc = "done" /\ Statuses = {StatusUnauthorized}
    ELSE /\ tokenCalls = << [token |-> tok, key |-> CaKey] >>
         /\ authn.result = "ok" <=> (tokenVerify(tok, CaKey).valid /\ ~tokenVerify(tok, CaKey).err)
         /\ authn.result # "ok" => (pc = "done" /\ Statuses = {StatusUnauthorized})

\* C9 as stated: the token primitive is called, on the second part, exactly for
\* the headers made of two parts separated by white space of any kind.
C9_WhitespaceSeparatedParts ==
    (AfterAuth /\ authn.path = "token")
    => LET parts == Fields(header.Authorization, << >>)
       IN  TokenPathFollows(Len(parts) = 2, IF Len(parts) = 2 THEN parts[2] ELSE << >>)

\* the positions of the space characters of a header
SpacesOf(a) == { i \in DOMAIN a : a[i] = " " }

\* C9, amended: the token primitive is called exactly for the headers holding
\* exactly one space character, on the text after that space, with the CA key;
\* the result is Ok exactly when the primitive returns valid with no error, and
\* every other outcome is a 401.
C9_SingleSpaceSeparatedParts ==
    (AfterAuth /\ authn.path = "token")
    => LET a == header.Authorization
           one == Cardinality(SpacesOf(a)) = 1
       IN  TokenPathFollows(one, IF one THEN Drop(a, CHOOSE i \in SpacesOf(a) : TRUE)
                                 ELSE << >>)

C9_Witness ==
    /\ pc = "signing" /\ authn.path = "token"
    /\ header.Authorization = << " ", "g" >>
    /\ tokenCalls = << [token |-> << "g" >>, key |-> CaKey] >>

\* C10: signEdgeCert hands the signing primitive the usages {client-auth} when
\* the Ext-Key-Usages header is empty and the deserialised list otherwise; a
\* header that does not deserialise ends the request with a 500 response and
\* without any call of the signing primitive.
C10_UsagesDefaultOrDeserialised ==
    (pc = "done" /\ authn.result = "ok")
    => LET u == header.ExtKeyUsages
           want == IF u = << >> THEN << ExtKeyUsageClientAuth >> ELSE jsonUnmarshal(u).list
       IN  IF u # << >> /\ ~jsonUnmarshal(u).ok
           THEN signCalls = << >> /\ Statuses = {StatusInternalServerError} /\ Len(resp) = 1
           ELSE /\ \A i \in DOMAIN signCalls : signCalls[i].usages = want
                /\ Len(body) <= MaxRespBodyLength => Len(signCalls) = 1

C10_Witness ==
    /\ pc = "done" /\ authn.result = "ok"
    /\ header.ExtKeyUsages = << "[", "1", ",", "2", "]" >>
    /\ Len(signCalls) = 1 /\ signCalls[1].usages = << 1, 2 >>
    /\ StatusOK \in Statuses

\* C11: an authenticated request whose body is longer than MaxRespBodyLength
\* ends with one 500 response naming the signing failure, and the signing
\* primitive is not called, neither on the body nor on a prefix of it.
C11_OversizedBodyNeverSigned ==
    (pc = "done" /\ authn.result = "ok" /\ Len(body) > MaxRespBodyLength)
    => /\ signCalls = << >>
       /\ Len(resp) = 1
       /\ resp[1].status = StatusInternalServerError
       /\ resp[1].body[1] = "failed to sign certs for edgenode"

C11_Witness ==
    /\ pc = "done" /\ authn.result = "ok"
    /\ Len(body) = MaxRespBodyLength + 1
    /\ ValidCSR(Take(body, MaxRespBodyLength))
    /\ header.ExtKeyUsages = << >>
    /\ signCalls = << >> /\ Statuses = {StatusInternalServerError}

\* the request of the end-to-end scenario, served: the client presented in the
\* handshake a certificate that chains to the CA and has the subject of the
\* claimed node, the handler verified it, there is no Ext-Key-Usages header and
\* the body is within the limit
EndToEndCase ==
    /\ route = "EdgeCoreClientCert" /\ pc = "done"
    /\ header.XForwardedClientCert = << >>
    /\ Len(handshake.PeerCertificates) > 0
    /\ authn.path = "cert" /\ authn.result = "ok"
    /\ authn.cert = << handshake.PeerCertificates[1] >>
    /\ CAChained(authn.cert[1])
    /\ header.ExtKeyUsages = << >>
    /\ Len(body) <= MaxRespBodyLength

\* the one call of the signing primitive the scenario asks for
EndToEndCall ==
    [csr |-> body, ca |-> CaCert, caKey |-> CaKey,
     usages |-> << ExtKeyUsageClientAuth >>,
     duration |-> Config.EdgeCertSigningDuration * HoursPerDay]

\* the PEM text of a block
IssuedPEM(block) == pemEncode(block.Type, block.Bytes)

\* C12: in the end-to-end scenario the signing primitive is called once with
\* (body, CA certificate, CA key, {client-auth}, days * 24h) and, when it
\* succeeds, the response is 200 with the non-empty PEM encoding of the issued
\* certificate.
C12_ResponseIsPEMText ==
    EndToEndCase
    => /\ signCalls = << EndToEndCall >>
       /\ Len(resp) = 1
       /\ SignCerts(EndToEndCall).ok
            => /\ resp[1].status = StatusOK
               /\ resp[1].body = IssuedPEM(SignCerts(EndToEndCall).block)
               /\ resp[1].body # << >>

\* C13: on each of its three paths (no header, header parsed, header not
\* parsed) FilterCert writes no response and calls chain.ProcessFilter once.
C13_FilterNeverRejects ==
    /\ pc = "filter" => (chain = 0 /\ resp = << >>)
    /\ AfterFilter => (chain = 1 /\ parsed \in {"none", "ok", "error"})
    /\ pc = "handler" => resp = << >>
    /\ resp # << >> => route # "none"

C13_Witness ==
    /\ pc = "handler" /\ parsed = "error" /\ chain = 1 /\ resp = << >>
    /\ header.XForwardedClientCert = hdrGarbage

\* C14: when r.TLS carries a peer certificate and verifyCert rejects the first
\* one, the request ends with one 401 response naming the node, token.Verify
\* and SignCerts are not called, whatever the Authorization header holds.
C14_CertificateRejectionIsFinal ==
    (AfterAuth /\ reqTLS.ref # "nil" /\ Len(PeerCertificates) > 0
               /\ verifyCert(PeerCertificates[1], header.NodeName, Config.caOk)
                    \in {"rootfail", "chainfail", "mismatch"})
    => /\ pc = "done"
       /\ authn.path = "cert"
       /\ tokenCalls = << >> /\ signCalls = << >>
       /\ Len(resp) = 1
       /\ resp[1].status = StatusUnauthorized
       /\ resp[1].body[2] = header.NodeName

C14_Witness ==
    /\ pc = "done" /\ authn.path = "cert" /\ authn.result = "mismatch"
    /\ header.Authorization = << "B", " ", "g" >>
    /\ verifyAuthorization(header.Authorization).code = StatusOK
    /\ header.NodeName = "beta"
    /\ tokenCalls = << >> /\ Statuses = {StatusUnauthorized}

\* C15: after FilterCert, a request whose forwarded-certificate header parses
\* has a non-nil r.TLS whose peer certificates are the list of the extracted
\* certificate alone, whatever r.TLS was before.
C15_ExtractedCertificateReplaces ==
    (AfterFilter /\ header.XForwardedClientCert # << >>
                 /\ parseCertHeader(header.XForwardedClientCert).ok)
    => /\ parsed = "ok"
       /\ reqTLS.ref # "nil"
       /\ PeerCertificates = << parseCertHeader(header.XForwardedClientCert).cert >>

C15_Witness ==
    /\ pc = "handler" /\ parsed = "ok"
    /\ handshake.PeerCertificates = << cGateway, cAlpha >>
    /\ header.XForwardedClientCert = hdrDER(cLegacyForged)
    /\ PeerCertificates = << cLegacyForged >>

\* C16: a run of FilterCert on a request without forwarded-certificate header
\* changes neither r.TLS nor the peer certificates it points to.
C16_NoHeaderLeavesRequestUnchanged ==
    [][(pc = "filter" /\ pc' # "filter" /\ header'.XForwardedClientCert = << >>)
       => (reqTLS' = reqTLS /\ connState' = connState /\ pc' = "handler")]_vars

C16_Witness ==
    /\ pc = "handler" /\ parsed = "none" /\ header.XForwardedClientCert = << >>
    /\ reqTLS.ref = "conn"
    /\ handshake.PeerCertificates = << cGateway, cAlpha >>
    /\ PeerCertificates = << cGateway, cAlpha >>

\* the headers holding well-formed PEM blocks, with the certificate of the
\* first block of type CERTIFICATE
PEMBundles ==
    { [hdr |-> hdrKeyThenCert, first |-> cAlpha],
      [hdr |-> hdrCertThenCert, first |-> cAlpha],
      [hdr |-> hdrPEM(cLegacy), first |-> cLegacy] }

\* C17: for a header holding well-formed PEM blocks, parseCertHeader returns the
\* certificate of the first block of type CERTIFICATE, skipping the blocks of
\* another type before it and ignoring the blocks after it.
C17_FirstCertificateBlockWins ==
    \A b \in PEMBundles :
        (AfterFilter /\ header.XForwardedClientCert = b.hdr)
        => (parsed = "ok" /\ reqTLS.ref # "nil" /\ PeerCertificates = << b.first >>)

\* C18: the base64 of the DER encoding of a certificate, whatever bytes the
\* encoding holds, is parsed by parseCertHeader into that certificate.
C18_DERFallbackByteForByte ==
    \A c \in Certificates :
        (AfterFilter /\ header.XForwardedClientCert = hdrDER(c))
        => (parsed = "ok" /\ reqTLS.ref # "nil" /\ PeerCertificates = << c >>)

\* the response a request must have got from its authentication and signing
ExpectedStatus ==
    IF authn.result # "ok" THEN StatusUnauthorized
    ELSE IF signEdgeCert(body, header.ExtKeyUsages, Config.EdgeCertSigningDuration).ok
    THEN StatusOK
    ELSE StatusInternalServerError

\* C19: a request whose run of EdgeCoreClientCert has ended has exactly one
\* response: 401 when authentication failed, 500 when it succeeded and signing
\* failed, 200 when both succeeded; token.Verify and SignCerts are each called
\* at most once.
C19_ExactlyOneResponse ==
    /\ Len(tokenCalls) <= 1 /\ Len(signCalls) <= 1
    /\ (route = "EdgeCoreClientCert" /\ pc \in {"done", "panic"})
       => /\ Len(resp) = 1
          /\ resp[1].status = ExpectedStatus

\* C20: a peer certificate that does not chain to the configured CA is rejected
\* with a 401 response whatever its subject, the legacy subject and the subject
\* of the claimed node included; the subject is not looked at for it.
C20_ChainGatesSubject ==
    (AfterAuth /\ authn.path = "cert" /\ ~CAChained(authn.cert[1]))
    => /\ authn.result \in {"rootfail", "chainfail"}
       /\ pc = "done"
       /\ Statuses = {StatusUnauthorized} /\ Len(resp) = 1
       /\ signCalls = << >>

C20_Witness ==
    /\ pc = "done" /\ authn.path = "cert" /\ Config.caOk
    /\ authn.cert = << cLegacyForged >>
    /\ authn.result = "chainfail" /\ Statuses = {StatusUnauthorized}

\* C21: under every interleaving of InitConfigure calls the function given to
\* once.Do runs at most once; Config is the zero value before that run and the
\* value of that run's argument ever after; a call with a nil argument changes
\* nothing and leaves the Once unused, so that once a call with a non-nil
\* argument has returned, Config has been set.
C21_ConfigSetAtMostOnce ==
    /\ Len(ran) <= 1
    /\ ran = << >> => (PolicyConfig = Configure(0) /\ once.done = 0)
    /\ ran # << >> => (~ran[1].isNil /\ PolicyConfig = Configure(ran[1].val))
    /\ (\E p \in returned : ~p.isNil) => (ran # << >> /\ once.done = 1)

C21_Witness ==
    /\ NilPC \in returned /\ PointerTo(1) \in returned /\ PointerTo(2) \in returned
    /\ ran = << PointerTo(2) >>
    /\ PolicyConfig = Configure(2)
    /\ \A g \in Goroutines : gpc[g] = "idle"

====
